---- MODULE Spec2Model ----
(***************************************************************************)
(* A model of mutil (src/mutil/__main__.py): the string sanitizer, the     *)
(* track-number parser, the Song methods (format_filename, rename, sort,   *)
(* transcode, remove_cover) over a small file system, and the main loop.   *)
(*                                                                         *)
(* Text is a sequence of one-character strings.  A Python value is a       *)
(* record tagged with its type, so that None, "" and 0 stay distinct.      *)
(* A path is the sequence of its components; a file name is text.          *)
(***************************************************************************)
EXTENDS Integers, Sequences, FiniteSets, TLC

VARIABLES
    call,       \* the last call of a pure function: its inputs and its outcome
    platform,   \* os.name of the run: "posix" or "nt"
    files,      \* path -> [ino, kind, tags] for every regular file on disk
    dirs,       \* the set of directories on disk
    song,       \* the Song object: path, title, album, artist, track
    last,       \* the last method call on song: arguments, pre-state, outcome
    ncalls,     \* number of method calls made so far
    run         \* the main loop: arguments, position, steps executed

vars == <<call, platform, files, dirs, song, last, ncalls, run>>

----------------------------------------------------------------------------
(* Python values *)

PyNone == [t |-> "NoneType"]
PyStr(s) == [t |-> "str", v |-> s]
PyInt(n) == [t |-> "int", v |-> n]

\* Python truthiness of None, str and int values
Truthy(x) ==
    CASE x.t = "NoneType" -> FALSE
      [] x.t = "str" -> Len(x.v) > 0
      [] x.t = "int" -> x.v # 0

\* outcome of a call: a returned value or a raised exception
Return(v) == [exc |-> "", val |-> v]
Raise(e) == [exc |-> e, val |-> PyNone]

----------------------------------------------------------------------------
(* characters *)

LowerCase == <<"a","b","c","d","e","f","g","h","i","j","k","l","m",
               "n","o","p","q","r","s","t","u","v","w","x","y","z">>
UpperCase == <<"A","B","C","D","E","F","G","H","I","J","K","L","M",
               "N","O","P","Q","R","S","T","U","V","W","X","Y","Z">>
Digits == <<"0","1","2","3","4","5","6","7","8","9">>

Range(f) == {f[i] : i \in DOMAIN f}

\* the complement of the class [^a-zA-Z0-9]
IsAlnum(c) == c \in Range(LowerCase) \cup Range(UpperCase) \cup Range(Digits)
IsDigit(c) == c \in Range(Digits)
DigitValue(c) == (CHOOSE i \in DOMAIN Digits : Digits[i] = c) - 1

\* str.lower() on ASCII text
LowerChar(c) ==
    IF c \in Range(UpperCase)
    THEN LowerCase[CHOOSE i \in DOMAIN UpperCase : UpperCase[i] = c]
    ELSE c
Lower(s) == [i \in DOMAIN s |-> LowerChar(s[i])]

----------------------------------------------------------------------------
(* clean_string *)

\* the substitutions table, applied by one combined pattern
Substitute(c) ==
    CASE c = "'" -> <<>>
      [] c = "$" -> <<"S">>
      [] c = "@" -> <<"a">>
      [] c = "&" -> <<"a", "n", "d">>
      [] OTHER -> <<c>>

\* pattern.sub(lambda x: substitutions[x.group()], s): every character
\* replaced by its substitute, of at most three characters
SubstituteAll(s) ==
    LET slot(j) == LET sub == Substitute(s[((j - 1) \div 3) + 1])
                       k == ((j - 1) % 3) + 1
                   IN IF k <= Len(sub) THEN sub[k] ELSE ""
    IN SelectSeq([j \in 1..(3 * Len(s)) |-> slot(j)], LAMBDA c : c # "")

\* re.sub(r'^[^a-zA-Z0-9]+|[^a-zA-Z0-9]+$', '', s): the text from its first
\* to its last letter or digit
StripEnds(s) ==
    LET at == {i \in DOMAIN s : IsAlnum(s[i])}
    IN IF at = {} THEN <<>>
       ELSE SubSeq(s, CHOOSE i \in at : \A j \in at : i <= j,
                      CHOOSE i \in at : \A j \in at : j <= i)

\* re.sub(r'[^a-zA-Z0-9]+', '_', s): the first character of every run
\* becomes the separator, the rest of the run goes
CollapseRuns(s) ==
    LET out(i) == IF IsAlnum(s[i]) THEN s[i]
                  ELSE IF i = 1 \/ IsAlnum(s[i - 1]) THEN "_"
                  ELSE ""
    IN SelectSeq([i \in DOMAIN s |-> out(i)], LAMBDA c : c # "")

\* the slice s[:n] of Python, n of either sign
SliceTo(s, n) ==
    IF n >= 0 THEN SubSeq(s, 1, IF n < Len(s) THEN n ELSE Len(s))
    ELSE SubSeq(s, 1, Len(s) + n)

\* clean_string(string, trim): string and trim are Python values
clean_string(string, trim) ==
    IF string.t # "str" THEN Raise("TypeError")
    ELSE LET s1 == SubstituteAll(string.v)
             s2 == StripEnds(s1)
             s3 == CollapseRuns(s2)
             s4 == IF Truthy(trim) THEN SliceTo(s3, trim.v) ELSE s3
         IN Return(PyStr(s4))

----------------------------------------------------------------------------
(* parse_tracknumber *)

\* re.match(r'^[0-9]+', s): the longest run of digits s starts with
LeadingDigits(s) ==
    LET stop == {i \in DOMAIN s : ~IsDigit(s[i])}
    IN IF stop = {} THEN s
       ELSE SubSeq(s, 1, (CHOOSE i \in stop : \A j \in stop : i <= j) - 1)

\* int() of a run of ASCII digits
RECURSIVE IntOf(_)
IntOf(ds) ==
    IF ds = <<>> THEN 0
    ELSE 10 * IntOf(SubSeq(ds, 1, Len(ds) - 1)) + DigitValue(ds[Len(ds)])

parse_tracknumber(s) ==
    IF s.t # "str" THEN Raise("TypeError")
    ELSE IF Len(s.v) < 1 THEN Return(PyNone)
    ELSE IF LeadingDigits(s.v) = <<>> THEN Raise("AttributeError")
    ELSE Return(PyInt(IntOf(LeadingDigits(s.v))))

----------------------------------------------------------------------------
(* pathlib: a path is the sequence of its components *)

PathName(p) == IF p = <<>> THEN <<>> ELSE p[Len(p)]
PathParent(p) == IF p = <<>> THEN <<>> ELSE SubSeq(p, 1, Len(p) - 1)

\* str.rfind('.') on a name, 0-based, -1 when there is no dot
RFindDot(name) ==
    LET at == {i \in DOMAIN name : name[i] = "."}
    IN IF at = {} THEN -1 ELSE (CHOOSE i \in at : \A j \in at : j <= i) - 1

\* PurePath.suffix
PathSuffix(p) ==
    LET name == PathName(p)
        i == RFindDot(name)
    IN IF 0 < i /\ i < Len(name) - 1 THEN SubSeq(name, i + 1, Len(name))
       ELSE <<>>

\* PurePath.with_name(name)
PathWithName(p, name) ==
    IF PathName(p) = <<>> \/ name = <<>> \/ name = <<".">> \/ "/" \in Range(name)
    THEN Raise("ValueError")
    ELSE Return(PathParent(p) \o <<name>>)

\* PurePath.with_suffix(suffix), for a suffix of the form ".xyz"
PathWithSuffix(p, suffix) ==
    LET name == PathName(p)
        old == PathSuffix(p)
    IN IF name = <<>> THEN Raise("ValueError")
       ELSE Return(PathParent(p)
                   \o <<SubSeq(name, 1, Len(name) - Len(old)) \o suffix>>)

\* PurePath.joinpath(*segments): empty segments add no component
RECURSIVE PathJoin(_, _)
PathJoin(p, segs) ==
    IF segs = <<>> THEN p
    ELSE PathJoin(IF Head(segs) = <<>> THEN p ELSE p \o <<Head(segs)>>,
                  Tail(segs))

----------------------------------------------------------------------------
(* Song.__init__ and Song.format_filename *)

\* the limit on the length of a derived name
NameLimit == 64

\* Song.__init__(path), tags being what TinyTag.get(path) returned
SongInit(path, tags) ==
    LET tr == parse_tracknumber(tags.track)
    IN IF tr.exc # "" THEN Raise(tr.exc)
       ELSE Return([path |-> path, title |-> tags.title, album |-> tags.album,
                    artist |-> tags.artist, track |-> tr.val])

\* decimal digits of n >= 0
RECURSIVE Decimal(_)
Decimal(n) ==
    IF n < 10 THEN <<Digits[n + 1]>> ELSE Decimal(n \div 10) \o <<Digits[(n % 10) + 1]>>

\* f'{n:02d}' for n >= 0
Format02d(n) == IF n < 10 THEN <<"0">> \o Decimal(n) ELSE Decimal(n)

\* str.rstrip('_')
RECURSIVE RStripUnderscore(_)
RStripUnderscore(s) ==
    IF s # <<>> /\ s[Len(s)] = "_"
    THEN RStripUnderscore(SubSeq(s, 1, Len(s) - 1)) ELSE s

format_filename(self) ==
    LET suffix == PathSuffix(self.path)
        s1 == IF Truthy(self.track) THEN Format02d(self.track.v) \o <<"_">>
              ELSE <<>>
        cl == IF Truthy(self.title)
              THEN clean_string(self.title,
                                PyInt(NameLimit - Len(s1 \o suffix)))
              ELSE Return(PyStr(<<>>))
        s2 == s1 \o cl.val.v
    IN IF cl.exc # "" THEN Raise(cl.exc)
       ELSE IF Len(s2) < 1 THEN Raise("ValueError")
       ELSE PathWithName(self.path, RStripUnderscore(s2) \o suffix)

----------------------------------------------------------------------------
(* the file system: files maps each regular file's path to its inode and   *)
(* content, dirs is the set of directories; the root <<>> always exists    *)

IsFile(fs, p) == p \in DOMAIN fs.files
IsDir(fs, p) == p = <<>> \/ p \in fs.dirs
Exists(fs, p) == IsFile(fs, p) \/ IsDir(fs, p)

\* os.path.samefile on two existing paths: the same inode
SameFile(fs, p, q) ==
    IF IsFile(fs, p) /\ IsFile(fs, q) THEN fs.files[p].ino = fs.files[q].ino
    ELSE p = q

\* result of a file-system call: the exception raised ("" for none) and the
\* file system it leaves
FsOk(fs) == [exc |-> "", files |-> fs.files, dirs |-> fs.dirs]
FsErr(e, fs) == [exc |-> e, files |-> fs.files, dirs |-> fs.dirs]

Ancestors(p) == {SubSeq(p, 1, n) : n \in 0..Len(p)}

\* Path.mkdir(parents=True, exist_ok=True) on a path that does not exist
MkdirParents(fs, d) ==
    IF \E a \in Ancestors(d) : IsFile(fs, a) THEN FsErr("NotADirectoryError", fs)
    ELSE [exc |-> "", files |-> fs.files,
          dirs |-> fs.dirs \cup (Ancestors(d) \ {<<>>})]

\* Path.mkdir() on a path that does not exist
Mkdir(fs, d) ==
    IF IsFile(fs, PathParent(d)) THEN FsErr("NotADirectoryError", fs)
    ELSE IF ~IsDir(fs, PathParent(d)) THEN FsErr("FileNotFoundError", fs)
    ELSE [exc |-> "", files |-> fs.files, dirs |-> fs.dirs \cup {d}]

\* Path.rename(dst) of a path that is a regular file or missing: os.rename,
\* which on POSIX replaces an existing file and on Windows refuses to
OsRename(os, fs, src, dst) ==
    IF ~IsFile(fs, src) THEN FsErr("FileNotFoundError", fs)
    ELSE IF \E a \in Ancestors(PathParent(dst)) : IsFile(fs, a)
    THEN FsErr("NotADirectoryError", fs)
    ELSE IF ~IsDir(fs, PathParent(dst)) THEN FsErr("FileNotFoundError", fs)
    ELSE IF IsDir(fs, dst)
    THEN FsErr(IF os = "posix" THEN "IsADirectoryError" ELSE "FileExistsError", fs)
    ELSE IF IsFile(fs, dst) /\ os # "posix" THEN FsErr("FileExistsError", fs)
    ELSE IF IsFile(fs, dst) /\ SameFile(fs, src, dst) THEN FsOk(fs)
    ELSE [exc |-> "",
          files |-> [q \in (DOMAIN fs.files \cup {dst}) \ {src} |->
                        IF q = dst THEN fs.files[src] ELSE fs.files[q]],
          dirs |-> fs.dirs]

\* Path.unlink()
Unlink(fs, p) ==
    IF ~IsFile(fs, p)
    THEN FsErr(IF IsDir(fs, p) THEN "IsADirectoryError" ELSE "FileNotFoundError", fs)
    ELSE [exc |-> "",
          files |-> [q \in DOMAIN fs.files \ {p} |-> fs.files[q]],
          dirs |-> fs.dirs]

FreshIno(fs) ==
    LET used == {fs.files[q].ino : q \in DOMAIN fs.files}
    IN IF used = {} THEN 1 ELSE (CHOOSE n \in used : \A m \in used : m <= n) + 1

\* subprocess.run(['ffmpeg', ..., '-i', input, ..., output]): the encoder
\* either writes output, carrying the tags of input (ok), or writes nothing;
\* its exit status is not inspected, so it never raises
Ffmpeg(fs, input, output, kind, ok) ==
    IF ~ok \/ ~IsFile(fs, input) \/ ~IsDir(fs, PathParent(output))
       \/ IsDir(fs, output) \/ SameFile(fs, input, output)
    THEN FsOk(fs)
    ELSE IF IsFile(fs, output)
    THEN [exc |-> "",
          files |-> [q \in DOMAIN fs.files |->
                        IF fs.files[q].ino = fs.files[output].ino
                        THEN [ino |-> fs.files[q].ino, kind |-> kind,
                              tags |-> fs.files[input].tags]
                        ELSE fs.files[q]],
          dirs |-> fs.dirs]
    ELSE [exc |-> "",
          files |-> [q \in DOMAIN fs.files \cup {output} |->
                        IF q = output
                        THEN [ino |-> FreshIno(fs), kind |-> kind,
                              tags |-> fs.files[input].tags]
                        ELSE fs.files[q]],
          dirs |-> fs.dirs]

----------------------------------------------------------------------------
(* codec_options.py *)

codec_config ==
    [k \in {"opus", "mp3-320", "mp3-128"} |->
        [suffix |-> IF k = "opus" THEN <<".", "o", "g", "g">>
                    ELSE <<".", "m", "p", "3">>]]

----------------------------------------------------------------------------
(* the Song methods: each yields the exception raised ("" for none), the   *)
(* file system and self.path it leaves, and the number of encoder runs     *)

Done(exc, fs, path, enc) ==
    [exc |-> exc, files |-> fs.files, dirs |-> fs.dirs, path |-> path, enc |-> enc]

\* rename without the check of the destination
rename_clobber(os, fs, self, dest) ==
    IF ~IsFile(fs, self.path) THEN Done("FileNotFoundError", fs, self.path, 0)
    ELSE IF self.path = dest THEN Done("", fs, self.path, 0)
    ELSE LET mk == IF ~Exists(fs, PathParent(dest))
                   THEN MkdirParents(fs, PathParent(dest)) ELSE FsOk(fs)
             mv == OsRename(os, mk, self.path, dest)
         IN IF mk.exc # "" THEN Done(mk.exc, mk, self.path, 0)
            ELSE IF mv.exc # "" THEN Done(mv.exc, mv, self.path, 0)
            ELSE Done("", mv, dest, 0)

\* Song.rename(dest)
rename(os, fs, self, dest) ==
    IF ~IsFile(fs, self.path) THEN Done("FileNotFoundError", fs, self.path, 0)
    ELSE IF Exists(fs, dest) /\ ~SameFile(fs, self.path, dest)
    THEN Done("FileExistsError", fs, self.path, 0)
    ELSE IF self.path = dest THEN Done("", fs, self.path, 0)
    ELSE LET mk == IF ~Exists(fs, PathParent(dest))
                   THEN MkdirParents(fs, PathParent(dest)) ELSE FsOk(fs)
             mv == OsRename(os, mk, self.path, dest)
         IN IF mk.exc # "" THEN Done(mk.exc, mk, self.path, 0)
            ELSE IF mv.exc # "" THEN Done(mv.exc, mv, self.path, 0)
            ELSE Done("", mv, dest, 0)

\* the trim limit of the directory names
SortTrim == 64

\* Song.sort(path)
sort(os, fs, self, path) ==
    LET artist == clean_string(self.artist, PyInt(SortTrim))
        album == clean_string(self.album, PyInt(SortTrim))
    IN IF artist.exc # "" THEN Done(artist.exc, fs, self.path, 0)
       ELSE IF album.exc # "" THEN Done(album.exc, fs, self.path, 0)
       ELSE rename(os, fs, self,
                   PathJoin(path, <<Lower(artist.val.v), Lower(album.val.v),
                                    PathName(self.path)>>))

\* transcode without the check of the output path
transcode_overwrite(fs, self, codec, ok) ==
    IF codec \notin DOMAIN codec_config THEN Done("ValueError", fs, self.path, 0)
    ELSE LET output == PathWithSuffix(self.path, codec_config[codec].suffix)
         IN IF output.exc # "" THEN Done(output.exc, fs, self.path, 0)
            ELSE Done("", Ffmpeg(fs, self.path, output.val, "encoded", ok),
                      self.path, 1)

\* Song.transcode(codec); ok: whether the encoder writes its output
transcode(fs, self, codec, ok) ==
    IF codec \notin DOMAIN codec_config THEN Done("ValueError", fs, self.path, 0)
    ELSE LET output == PathWithSuffix(self.path, codec_config[codec].suffix)
         IN IF output.exc # "" THEN Done(output.exc, fs, self.path, 0)
            ELSE IF Exists(fs, output.val)
            THEN Done("FileExistsError", fs, self.path, 0)
            ELSE Done("", Ffmpeg(fs, self.path, output.val, "encoded", ok),
                      self.path, 1)

TempPrefix == <<"t", "e", "m", "p", ".">>
BackupDir == <<"m", "u", "t", "i", "l", "_", "b", "a", "c", "k", "u", "p", "~">>

\* the paths Song.remove_cover works on
TempOf(path) == PathParent(path) \o <<TempPrefix \o PathName(path)>>
OldOf(path) == PathJoin(PathParent(path), <<BackupDir, PathName(path)>>)

\* Song.remove_cover(); ok: whether the encoder writes its output
remove_cover(os, fs, self, ok) ==
    LET temp == TempOf(self.path)
        old == OldOf(self.path)
        mk == IF ~Exists(fs, PathParent(old)) THEN Mkdir(fs, PathParent(old))
              ELSE FsOk(fs)
        ff == Ffmpeg(mk, self.path, temp, "stripped", ok)
        mv == OsRename(os, ff, self.path, old)
        un == Unlink(ff, temp)
        fin == OsRename(os, mv, temp, self.path)
    IN IF mk.exc # "" THEN Done(mk.exc, mk, self.path, 0)
       ELSE IF mv.exc = "FileExistsError"
       THEN Done(IF un.exc # "" THEN un.exc ELSE mv.exc, un, self.path, 1)
       ELSE IF mv.exc # "" THEN Done(mv.exc, mv, self.path, 1)
       ELSE Done(fin.exc, fin, self.path, 1)

----------------------------------------------------------------------------
(* the tag reader *)

NoTags == [title |-> PyNone, album |-> PyNone, artist |-> PyNone, track |-> PyNone]

\* TinyTag.get(path, duration=False): the tags stored in an audio file
TinyTagGet(fs, path) ==
    IF ~IsFile(fs, path) THEN Raise("FileNotFoundError")
    ELSE IF fs.files[path].kind = "other" THEN Raise("TinyTagException")
    ELSE Return(fs.files[path].tags)

----------------------------------------------------------------------------
(* the inputs of the model *)

MaxCalls == 2       \* method calls on one Song object

InDir == <<"i", "n">>
NameA == <<"a", ".", "m", "p", "3">>
NameB == <<"b", ".", "m", "p", "3">>
NameE == <<"e", ".", "m", "p", "3">>
NameL == <<"l", ".", "m", "p", "3">>
NameOgg == <<"a", ".", "o", "g", "g">>
NameD == <<"d">>
NameN == <<"n", ".", "m", "p", "3">>
OutDir == <<"o", "u", "t">>

PathA == <<InDir, NameA>>
PathB == <<InDir, NameB>>
PathE == <<InDir, NameE>>
PathL == <<InDir, NameL>>
PathOgg == <<InDir, NameOgg>>
PathD == <<InDir, NameD>>
PathN == <<OutDir, NameD, NameN>>
PathBackupA == OldOf(PathA)

TitleText == <<"T", " ", "s">>
ArtistText == <<"A", "b">>
AlbumText == <<"C", "&", "d">>

\* the tags of the song file
SongTags ==
    [title : {PyNone, PyStr(TitleText)}, album : {PyStr(AlbumText)},
     artist : {PyNone, PyStr(ArtistText)}, track : {PyStr(<<>>), PyStr(<<"1">>)}]

Audio(ino, tags) == [ino |-> ino, kind |-> "original", tags |-> tags]
Other(ino) == [ino |-> ino, kind |-> "other", tags |-> NoTags]

\* what else is on disk beside the song: nothing, an unrelated file, a hard
\* link to the song, an earlier backup, a file where the transcoder writes
Extras(tags) ==
    { <<>>,
      PathE :> Other(2),
      PathL :> Audio(1, tags),
      PathBackupA :> Other(3),
      PathOgg :> Other(4) }

RenameDests == {PathE, PathL, PathD, PathN}
SortBases == {<<OutDir>>}
CodecKeys == {"opus", "mp3-320", "flac"}

FS == [files |-> files, dirs |-> dirs]

NoCall == [fn |-> "none"]
NoLast == [op |-> "none", arg |-> <<>>, exc |-> "", enc |-> 0,
           files |-> <<>>, dirs |-> {}, path |-> <<>>]
NoRun == [status |-> "off"]

----------------------------------------------------------------------------
(* Spec: any sequence of method calls on one Song object *)

Init ==
    /\ call = NoCall
    /\ run = NoRun
    /\ platform \in {"posix", "nt"}
    /\ \E tags \in SongTags : \E extra \in Extras(tags) :
          /\ files = (PathA :> Audio(1, tags)) @@ extra
          /\ dirs = {<<InDir>>, PathD}
                    \cup (IF PathBackupA \in DOMAIN extra
                          THEN {PathParent(PathBackupA)} ELSE {})
          /\ song = SongInit(PathA, tags).val
    /\ last = NoLast
    /\ ncalls = 0

\* a method call that ended as res
Apply(op, arg, res) ==
    /\ ncalls < MaxCalls
    /\ files' = res.files
    /\ dirs' = res.dirs
    /\ song' = [song EXCEPT !.path = res.path]
    /\ last' = [op |-> op, arg |-> arg, exc |-> res.exc, enc |-> res.enc,
                files |-> files, dirs |-> dirs, path |-> song.path]
    /\ ncalls' = ncalls + 1
    /\ UNCHANGED <<call, platform, run>>

Rename ==
    \E dest \in RenameDests \cup {song.path} :
        Apply("rename", dest, rename(platform, FS, song, dest))

\* s.rename(s.format_filename())
RenameFormatted ==
    LET dest == format_filename(song)
    IN IF dest.exc # ""
       THEN Apply("format_filename", <<>>, Done(dest.exc, FS, song.path, 0))
       ELSE Apply("rename", dest.val, rename(platform, FS, song, dest.val))

Sort ==
    \E base \in SortBases : Apply("sort", base, sort(platform, FS, song, base))

Transcode ==
    \E codec \in CodecKeys, ok \in BOOLEAN :
        Apply("transcode", codec, transcode(FS, song, codec, ok))

RemoveCover ==
    \E ok \in BOOLEAN :
        Apply("remove_cover", <<>>, remove_cover(platform, FS, song, ok))

Next == Rename \/ RenameFormatted \/ Sort \/ Transcode \/ RemoveCover

Spec == Init /\ [][Next]_vars

----------------------------------------------------------------------------
(* properties of the Song methods, checked under Spec *)

\* the file system before the last call
Pre == [files |-> last.files, dirs |-> last.dirs]

\* every file that was on disk before the last call is there, unchanged
NothingTouched ==
    \A p \in DOMAIN last.files : p \in DOMAIN files /\ files[p] = last.files[p]

\* the last call changed nothing at all
NothingChanged == files = last.files /\ dirs = last.dirs /\ song.path = last.path

\* C1: a rename whose destination exists and is not the same file as the
\* record's path changes nothing on disk nor the record's path and fails;
\* it fails with FileExistsError whenever the record's path is a file
\* (when it is not, there is no source file and rename fails with
\* FileNotFoundError)
RenameNoClobber ==
    (/\ last.op = "rename"
     /\ Exists(Pre, last.arg)
     /\ ~SameFile(Pre, last.path, last.arg))
    => /\ NothingChanged
       /\ last.exc # ""
       /\ IsFile(Pre, last.path) => last.exc = "FileExistsError"

RenameNoClobberWitness ==
    /\ last.op = "rename"
    /\ last.arg = PathE
    /\ IsFile(Pre, PathE)
    /\ IsFile(Pre, last.path)
    /\ ~SameFile(Pre, last.path, PathE)
    /\ last.exc = "FileExistsError"

\* C2: after any sequence of calls the record's path is a file on disk
PathAlwaysExists == IsFile(FS, song.path)

\* C3: remove_cover on a file whose backup destination exists fails with
\* FileExistsError, leaves the backup and the original as they were and
\* leaves no temp file
BackupNeverReplaced ==
    (/\ last.op = "remove_cover"
     /\ IsFile(Pre, last.path)
     /\ IsFile(Pre, OldOf(last.path))
     /\ ~Exists(Pre, TempOf(last.path)))
    => /\ last.exc = "FileExistsError"
       /\ IsFile(FS, OldOf(last.path))
       /\ files[OldOf(last.path)] = last.files[OldOf(last.path)]
       /\ IsFile(FS, last.path)
       /\ files[last.path] = last.files[last.path]
       /\ ~Exists(FS, TempOf(last.path))

\* sanitize of a tag value, an absent value giving the empty text
SanitizedLower(x) ==
    IF x.t = "str" THEN Lower(clean_string(x, PyInt(SortTrim)).val.v) ELSE <<>>

SortDest(base, path) ==
    PathJoin(base, <<SanitizedLower(song.artist), SanitizedLower(song.album),
                     PathName(path)>>)

\* C8: sort moves the file to base/artist/album/name, whatever the tags,
\* absent ones included, and the record's path is that destination
SortNeverFailsOnTags ==
    (/\ last.op = "sort"
     /\ IsFile(Pre, last.path)
     /\ ~Exists(Pre, SortDest(last.arg, last.path)))
    => /\ last.exc = ""
       /\ song.path = SortDest(last.arg, last.path)
       /\ IsFile(FS, song.path)
       /\ files[song.path] = last.files[last.path]

\* the output path of a transcode: the extension replaced by the table's
TranscodeOutput == PathWithSuffix(last.path, codec_config[last.arg].suffix).val

\* C9: transcode touches no file that exists and keeps the record's path;
\* an unknown key fails with ValueError and an existing output path with
\* FileExistsError, both without running the encoder; otherwise the
\* encoder runs once
TranscodeFrame ==
    last.op = "transcode"
    => /\ NothingTouched
       /\ dirs = last.dirs
       /\ song.path = last.path
       /\ last.arg \notin DOMAIN codec_config
            => last.exc = "ValueError" /\ last.enc = 0 /\ files = last.files
       /\ (last.arg \in DOMAIN codec_config /\ Exists(Pre, TranscodeOutput))
            => last.exc = "FileExistsError" /\ last.enc = 0 /\ files = last.files
       /\ (last.arg \in DOMAIN codec_config /\ ~Exists(Pre, TranscodeOutput))
            => last.exc = "" /\ last.enc = 1

TranscodeFrameWitness ==
    /\ last.op = "transcode"
    /\ last.arg = "opus"
    /\ last.enc = 1
    /\ ~Exists(Pre, TranscodeOutput)
    /\ IsFile(FS, TranscodeOutput)
    /\ IsFile(FS, song.path)

----------------------------------------------------------------------------
(* SpecText: one call of a pure function on an input from a bounded set,   *)
(* and format_filename on the Song a call of the constructor made          *)

MaxTextLen == 3     \* length of the texts given to clean_string
MaxTrim == 3        \* largest trim limit given to clean_string
MaxTrackLen == 3    \* length of the track tags given to parse_tracknumber
MaxSeedLen == 2     \* length of the pattern a title repeats
TitleReps == 35     \* repetitions of the pattern in a long title

TextAlphabet == {"a", "B", "7", " ", "-", "&", "'"}
TrackAlphabet == {"0", "1", "9", "/", "x"}
SeedAlphabet == {"a", " ", "&", "'"}

TextsOver(alphabet, n) == UNION {[1..k -> alphabet] : k \in 0..n}

Repeat(s, n) == [i \in 1..(n * Len(s)) |-> s[((i - 1) % Len(s)) + 1]]

\* an extension of n characters: a dot and n - 1 letters, or none
Ext(n) == IF n = 0 THEN <<>> ELSE <<".">> \o Repeat(<<"x">>, n - 1)
ExtLens == {0, 4, NameLimit - 4, NameLimit - 3, NameLimit - 2, NameLimit,
            NameLimit + 6}

Titles ==
    {PyNone} \cup {PyStr(Repeat(seed, n)) :
                     seed \in TextsOver(SeedAlphabet, MaxSeedLen),
                     n \in {1, TitleReps}}
TrackTags == {PyNone} \cup {PyStr(t) : t \in TextsOver({"0", "7"}, MaxTrackLen)}

InitText ==
    /\ call = NoCall
    /\ run = NoRun
    /\ platform = "posix"
    /\ files = <<>>
    /\ dirs = {}
    /\ song = PyNone
    /\ last = NoLast
    /\ ncalls = 0

CallCleanString ==
    /\ call = NoCall
    /\ \E s \in {PyNone} \cup {PyStr(t) : t \in TextsOver(TextAlphabet, MaxTextLen)},
          trim \in {PyNone} \cup {PyInt(n) : n \in 1..MaxTrim} :
          call' = [fn |-> "clean_string", string |-> s, trim |-> trim,
                   out |-> clean_string(s, trim)]
    /\ UNCHANGED <<platform, files, dirs, song, last, ncalls, run>>

CallParseTracknumber ==
    /\ call = NoCall
    /\ \E s \in {PyNone} \cup {PyStr(t) : t \in TextsOver(TrackAlphabet, MaxTrackLen)} :
          call' = [fn |-> "parse_tracknumber", s |-> s,
                   out |-> parse_tracknumber(s)]
    /\ UNCHANGED <<platform, files, dirs, song, last, ncalls, run>>

\* Song(path) on a file with the given tags
CallSongInit ==
    /\ call = NoCall
    /\ \E title \in Titles, track \in TrackTags, n \in ExtLens :
          LET tags == [title |-> title, album |-> PyNone, artist |-> PyNone,
                       track |-> track]
          IN call' = [fn |-> "Song", tags |-> tags,
                      out |-> SongInit(<<InDir, <<"t">> \o Ext(n)>>, tags)]
    /\ UNCHANGED <<platform, files, dirs, song, last, ncalls, run>>

\* format_filename() on the Song just made
CallFormatFilename ==
    /\ call.fn = "Song"
    /\ call.out.exc = ""
    /\ call' = [fn |-> "format_filename", self |-> call.out.val,
                out |-> format_filename(call.out.val)]
    /\ UNCHANGED <<platform, files, dirs, song, last, ncalls, run>>

NextText ==
    CallCleanString \/ CallParseTracknumber \/ CallSongInit \/ CallFormatFilename

SpecText == InitText /\ [][NextText]_vars

\* C4: a name format_filename returns has at most 64 characters
FilenameWithinLimit ==
    (call.fn = "format_filename" /\ call.out.exc = "")
    => Len(PathName(call.out.val)) <= 64

\* the text a title sanitizes to, an absent title giving none
SanitizedTitle(title) ==
    IF title.t = "str" THEN clean_string(title, PyNone).val.v ELSE <<>>

\* C5: format_filename fails with ValueError exactly when the track is
\* absent and the title is absent or sanitizes to the empty text; otherwise
\* it returns a name with a non-empty stem and the original extension
FilenameFailsOnlyWithoutMetadata ==
    call.fn = "format_filename"
    => LET self == call.self
           suffix == PathSuffix(self.path)
           name == PathName(call.out.val)
       IN IF self.track.t = "NoneType" /\ SanitizedTitle(self.title) = <<>>
          THEN call.out.exc = "ValueError"
          ELSE /\ call.out.exc = ""
               /\ Len(name) > Len(suffix)
               /\ SubSeq(name, Len(name) - Len(suffix) + 1, Len(name)) = suffix
               /\ PathSuffix(call.out.val) = suffix

\* no separator at either end and no two separators in a row
SingleSeparators(s) ==
    /\ \A i \in DOMAIN s : IsAlnum(s[i]) \/ s[i] = "_"
    /\ s # <<>> => s[1] # "_" /\ s[Len(s)] # "_"
    /\ \A i \in 1..(Len(s) - 1) : ~(s[i] = "_" /\ s[i + 1] = "_")

\* C6: clean_string returns letters, digits and single separators, with no
\* separator at either end, and at most trim characters when trim is given
SanitizedWellFormed ==
    (call.fn = "clean_string" /\ call.string.t = "str")
    => /\ call.out.exc = ""
       /\ SingleSeparators(call.out.val.v)
       /\ call.trim.t = "int" => Len(call.out.val.v) <= call.trim.v

\* C7: parse_tracknumber returns None for an empty or absent input, the
\* value of the leading run of digits for an input that starts with a
\* digit, and fails for any other input
TrackParsedOrNone ==
    call.fn = "parse_tracknumber"
    => IF call.s.t = "NoneType" \/ call.s.v = <<>>
       THEN call.out = Return(PyNone)
       ELSE IF IsDigit(call.s.v[1])
       THEN call.out = Return(PyInt(IntOf(LeadingDigits(call.s.v))))
       ELSE call.out.exc # ""

----------------------------------------------------------------------------
(* SpecMain: the loop of main() over the files of the command line *)

MaxFiles == 2       \* files on the command line

StepOrder == <<"sort", "rename", "remove_cover", "transcode">>

TagsA == [title |-> PyStr(TitleText), album |-> PyStr(AlbumText),
          artist |-> PyStr(ArtistText), track |-> PyStr(<<"1">>)]

\* the tags of the second file: those of the first, or no title and an
\* empty track, or no tags at all
TagsOfB ==
    {TagsA,
     [title |-> PyNone, album |-> PyStr(AlbumText),
      artist |-> PyStr(ArtistText), track |-> PyStr(<<>>)],
     NoTags}

\* args.sort, args.rename, args.remove_cover, args.transcode
Flags ==
    [sort : {PyNone, [t |-> "Path", v |-> <<OutDir>>]},
     rename : BOOLEAN,
     remove_cover : BOOLEAN,
     transcode : {PyNone, [t |-> "str", v |-> "opus"], [t |-> "str", v |-> "mp3-320"]}]

Requested(flags, op) ==
    CASE op = "sort" -> flags.sort.t # "NoneType"
      [] op = "rename" -> flags.rename
      [] op = "remove_cover" -> flags.remove_cover
      [] op = "transcode" -> flags.transcode.t # "NoneType"

\* not any(required)
NoneRequested(flags) == \A k \in DOMAIN StepOrder : ~Requested(flags, StepOrder[k])

InitMain ==
    /\ call = NoCall
    /\ last = NoLast
    /\ ncalls = 0
    /\ song = PyNone
    /\ platform \in {"posix", "nt"}
    /\ \E tagsB \in TagsOfB :
          files = (PathA :> Audio(1, TagsA)) @@ (PathB :> Audio(2, tagsB))
    /\ dirs = {<<InDir>>}
    /\ \E args \in UNION {[1..n -> {PathA, PathB}] : n \in 0..MaxFiles},
          flags \in Flags :
          run = [args |-> args, flags |-> flags, i |-> 1, stage |-> "song",
                 status |-> IF Len(args) < 1 \/ NoneRequested(flags)
                            THEN "usage" ELSE "running",
                 log |-> <<>>]

\* an exception no one catches ends the run
continue_after_error(exc) == "running"

StatusAfter(exc) == IF exc # "" THEN "failed" ELSE "running"

\* s = Song(file)
MainNewSong ==
    /\ run.status = "running"
    /\ run.stage = "song"
    /\ LET tags == TinyTagGet(FS, run.args[run.i])
           s == IF tags.exc # "" THEN Raise(tags.exc)
                ELSE SongInit(run.args[run.i], tags.val)
       IN /\ song' = s.val
          /\ run' = [run EXCEPT !.status = StatusAfter(s.exc), !.stage = "sort"]
    /\ UNCHANGED <<call, platform, files, dirs, last, ncalls>>

\* the statement of the loop body at stage: op is run when its flag is set
MainStep(stage, res, next) ==
    /\ run.status = "running"
    /\ run.stage = stage
    /\ IF Requested(run.flags, stage)
       THEN /\ files' = res.files
            /\ dirs' = res.dirs
            /\ song' = [song EXCEPT !.path = res.path]
            /\ run' = [run EXCEPT
                         !.log = Append(@, [file |-> run.i, op |-> stage,
                                            exc |-> res.exc]),
                         !.status = StatusAfter(res.exc),
                         !.stage = next]
       ELSE /\ run' = [run EXCEPT !.stage = next]
            /\ UNCHANGED <<files, dirs, song>>
    /\ UNCHANGED <<call, platform, last, ncalls>>

\* if args.sort: s.sort(args.sort)
MainSort == MainStep("sort", sort(platform, FS, song, run.flags.sort.v), "rename")

\* if args.rename: s.rename(s.format_filename())
MainRename ==
    LET dest == format_filename(song)
    IN MainStep("rename",
                IF dest.exc # "" THEN Done(dest.exc, FS, song.path, 0)
                ELSE rename(platform, FS, song, dest.val),
                "remove_cover")

\* if args.remove_cover: s.remove_cover()
MainRemoveCover ==
    \E ok \in BOOLEAN :
        MainStep("remove_cover", remove_cover(platform, FS, song, ok), "transcode")

\* if args.transcode: s.transcode(args.transcode)
MainTranscode ==
    \E ok \in BOOLEAN :
        MainStep("transcode", transcode(FS, song, run.flags.transcode.v, ok), "next")

\* the for statement: the next file, or the end of the run
MainNextFile ==
    /\ run.status = "running"
    /\ run.stage = "next"
    /\ run' = IF run.i < Len(run.args)
              THEN [run EXCEPT !.i = @ + 1, !.stage = "song"]
              ELSE [run EXCEPT !.status = "done"]
    /\ UNCHANGED <<call, platform, files, dirs, song, last, ncalls>>

NextMain ==
    \/ MainNewSong
    \/ MainSort
    \/ MainRename
    \/ MainRemoveCover
    \/ MainTranscode
    \/ MainNextFile

SpecMain == InitMain /\ [][NextMain]_vars

\* the steps the command line asks for: the files in argument order and,
\* for each, its requested actions in the order sort, rename, cover, transcode
Plan ==
    LET all == [k \in 1..(4 * Len(run.args)) |->
                   [file |-> ((k - 1) \div 4) + 1, op |-> StepOrder[((k - 1) % 4) + 1]]]
    IN SelectSeq(all, LAMBDA st : Requested(run.flags, st.op))

\* C10: the steps executed are a prefix of the plan, only the last of them
\* may have failed, a failure ends the run, a run that ends without one has
\* executed the whole plan, and the run goes on to the steps of a file only
\* with the Song made for it
RunIsPrefixOfPlan ==
    run.status # "off"
    => /\ Len(run.log) <= Len(Plan)
       /\ \A k \in DOMAIN run.log :
             /\ run.log[k].file = Plan[k].file
             /\ run.log[k].op = Plan[k].op
             /\ run.log[k].exc # "" => k = Len(run.log) /\ run.status = "failed"
       /\ run.status = "done" => Len(run.log) = Len(Plan)
       /\ (run.status = "running" /\ run.stage # "song") => song # PyNone

\* a step of the first of two files failed after another step had run:
\* the rest of the plan, the second file included, is not executed
RunIsPrefixOfPlanWitness ==
    /\ run.status = "failed"
    /\ Len(run.args) = 2
    /\ Len(run.log) >= 2
    /\ run.log[Len(run.log)].file = 1
    /\ run.log[Len(run.log)].exc # ""
    /\ Len(run.log) < Len(Plan)

====
